---- MODULE Spec2Model ----
(***************************************************************************)
(* Metadata generation pipeline of tabo-autogen-ai-prototype-v2.           *)
(*                                                                         *)
(*   - sanitizeMetadata / generateAssetMetadata : the service module       *)
(*     (src/components/UserGuide.tsx, lines 104-280)                       *)
(*   - App : the pipeline component (src/sw.js, lines 69-476)              *)
(*                                                                         *)
(* JavaScript strings are sequences of one-character strings, so that      *)
(* split, trim, toLowerCase, substring and join are computed character by  *)
(* character.  A JavaScript value is a record [t, s, n]: its type tag, its *)
(* characters (strings only) and its number (numbers only).                *)
(***************************************************************************)
EXTENDS Integers, Sequences, FiniteSets, TLC

VARIABLES
    data,       \* sanitizeMetadata: the parsed provider object (its six fields)
    sPlatform,  \* sanitizeMetadata: the platform argument
    result,     \* sanitizeMetadata: what the call produced (returned value or throw)
    spc,        \* sanitizeMetadata: "input" before the call, "done" after it
    assets,       \* App: useState<Asset[]>, the pipeline in display order
    platform,     \* App: the selected marketplace
    activeEngine, \* App: 'gemini' | 'groq'
    groqKey,      \* App: the Groq credential typed by the user
    hasGeminiKey, \* App: whether a Gemini key was selected
    isGenerating, \* App: a generate-all run is in progress
    isOnline,     \* navigator.onLine
    run,          \* handleGenerateAll in progress: its pendingAssets, loop index and closure
    calls,        \* generateAssetMetadata calls suspended at their network round-trip
    gen,          \* generateAssetMetadata: one call followed from entry to settlement
    edit,         \* editImageAsset: one call followed from entry to settlement
    csv,          \* exportCSV: the header and the rows of the file last exported
    store,        \* localStorage 'autometagen_pipeline': the list last saved
    nextId,       \* number of assets created so far (ids are 1..nextId)
    changes       \* number of times the user changed platform, engine or key

svars == <<data, sPlatform, result, spc>>
avars == <<assets, platform, activeEngine, groqKey, hasGeminiKey, isGenerating,
           isOnline, run, calls, store, nextId, changes>>
vars == <<svars, avars, gen, edit, csv>>

-----------------------------------------------------------------------------
(* Bounds of the model *)

MaxTokens == 51        \* longest generated keyword list, in tokens
MaxExtraChars == 10    \* how far a generated title/description exceeds its cap
MaxAssets == 1         \* assets ever added to the pipeline
MaxInFlight == 2       \* generateAssetMetadata calls suspended at the same time
MaxSettingChanges == 1 \* changes of platform, engine or key in one behaviour
MaxKeyLen == 10        \* longest Groq credential typed
MaxParts == 4          \* most content parts in a response of the image editor
PipelineAssets == 2    \* assets in the pipeline of the two-asset scenario
BatchAssets == 6       \* assets a generate-all run selects in the batch scenario

-----------------------------------------------------------------------------
(* JavaScript values *)

Str(s)  == [t |-> "string", s |-> s, n |-> 0]
Num(k)  == [t |-> "number", s |-> <<>>, n |-> k]
Bool(b) == [t |-> "boolean", s |-> <<>>, n |-> IF b THEN 1 ELSE 0]
Undef   == [t |-> "undefined", s |-> <<>>, n |-> 0]
Null    == [t |-> "null", s |-> <<>>, n |-> 0]
Arr     == [t |-> "array", s |-> <<>>, n |-> 0]
Obj     == [t |-> "object", s |-> <<>>, n |-> 0]

\* ToBoolean: undefined, null, false, 0 and "" are falsy; arrays and objects
\* (even empty ones) are truthy.
Truthy(v) ==
    CASE v.t = "string"  -> Len(v.s) > 0
      [] v.t = "number"  -> v.n # 0
      [] v.t = "boolean" -> v.n = 1
      [] v.t \in {"undefined", "null"} -> FALSE
      [] OTHER -> TRUE

\* a || b
OrElse(a, b) == IF Truthy(a) THEN a ELSE b

\* The characters of a string literal of the source.
Chars(str) ==
    CASE str = "Untitled Stock Asset" ->
           <<"U","n","t","i","t","l","e","d"," ","S","t","o","c","k"," ","A","s","s","e","t">>
      [] str = "High quality commercial stock asset for creative projects." ->
           <<"H","i","g","h"," ","q","u","a","l","i","t","y"," ",
             "c","o","m","m","e","r","c","i","a","l"," ","s","t","o","c","k"," ",
             "a","s","s","e","t"," ","f","o","r"," ",
             "c","r","e","a","t","i","v","e"," ","p","r","o","j","e","c","t","s",".">>
      [] str = "_concept" -> <<"_","c","o","n","c","e","p","t">>
      [] str = "graphic"  -> <<"g","r","a","p","h","i","c">>
      [] str = ", "       -> <<",", " ">>
      [] str = ""         -> <<>>

-----------------------------------------------------------------------------
(* String primitives *)

IsSpace(c) == c \in {" ", "\t", "\n"}

\* String.prototype.toLowerCase on one character.
LowerChar(c) ==
    CASE c = "A" -> "a" [] c = "B" -> "b" [] c = "C" -> "c" [] c = "D" -> "d"
      [] c = "E" -> "e" [] c = "F" -> "f" [] c = "G" -> "g" [] c = "H" -> "h"
      [] c = "I" -> "i" [] c = "J" -> "j" [] c = "K" -> "k" [] c = "L" -> "l"
      [] c = "M" -> "m" [] c = "N" -> "n" [] c = "O" -> "o" [] c = "P" -> "p"
      [] c = "Q" -> "q" [] c = "R" -> "r" [] c = "S" -> "s" [] c = "T" -> "t"
      [] c = "U" -> "u" [] c = "V" -> "v" [] c = "W" -> "w" [] c = "X" -> "x"
      [] c = "Y" -> "y" [] c = "Z" -> "z"
      [] OTHER -> c

ToLowerCase(s) == [i \in 1..Len(s) |-> LowerChar(s[i])]

\* String.prototype.trim: drop the leading and the trailing white space.
Trim(s) ==
    LET keep == {i \in 1..Len(s) : ~IsSpace(s[i])}
    IN  IF keep = {} THEN <<>>
        ELSE LET lo == CHOOSE i \in keep : \A j \in keep : i <= j
                 hi == CHOOSE i \in keep : \A j \in keep : j <= i
             IN  SubSeq(s, lo, hi)

\* String.prototype.substring(0, n)
Substring0(s, n) == SubSeq(s, 1, IF Len(s) < n THEN Len(s) ELSE n)

\* String.prototype.split(','): the pieces between consecutive commas; a
\* string without a comma (the empty string included) is one piece.
Split(s) ==
    LET commas == {i \in 1..Len(s) : s[i] = ","}
        cuts   == commas \cup {0, Len(s) + 1}
        NextCut(i) == CHOOSE j \in cuts : j > i /\ \A k \in cuts : k > i => j <= k
        RECURSIVE From(_)
        From(i) == IF i = Len(s) + 1 THEN <<>>
                   ELSE LET j == NextCut(i) IN <<SubSeq(s, i + 1, j - 1)>> \o From(j)
    IN  From(0)

\* Array.prototype.join(sep)
RECURSIVE Join(_, _)
Join(list, sep) ==
    IF Len(list) = 0 THEN <<>>
    ELSE IF Len(list) = 1 THEN list[1]
    ELSE list[1] \o sep \o Join(Tail(list), sep)

\* Variant: no filter, the empty pieces stay in the list.
FilterBoolean_keepEmpty(list) == list

\* Array.prototype.filter(Boolean) on an array of strings: drop the empty ones.
RECURSIVE FilterBoolean(_)
FilterBoolean(list) ==
    IF Len(list) = 0 THEN <<>>
    ELSE IF Len(list[1]) > 0 THEN <<list[1]>> \o FilterBoolean(Tail(list))
    ELSE FilterBoolean(Tail(list))

-----------------------------------------------------------------------------
(* Program constants *)

PLATFORMS == {"Shutterstock", "Adobe Stock", "Dreamstime", "Teepublic"}

\* A category name is only ever compared whole (Array.prototype.includes), so
\* each name is kept as a string of one piece.
SHUTTERSTOCK_CATEGORIES ==
    << <<"Abstract">>, <<"Animals/Wildlife">>, <<"The Arts">>,
       <<"Backgrounds/Textures">>, <<"Beauty/Fashion">>, <<"Buildings/Landmarks">>,
       <<"Business/Finance">>, <<"Celebrities">>, <<"Education">>,
       <<"Food and Drink">>, <<"Healthcare/Medical">>, <<"Holidays">>,
       <<"Industrial">>, <<"Interiors">>, <<"Miscellaneous">>, <<"Nature">>,
       <<"Objects">>, <<"Parks/Outdoor">>, <<"People">>, <<"Religion">>,
       <<"Science">>, <<"Signs/Symbols">>, <<"Sports/Recreation">>,
       <<"Technology">>, <<"Transportation">>, <<"Vectors">>, <<"Vintage">> >>

KEYWORD_COUNT == 49     \* the literal 49 of sanitizeMetadata
TITLE_CUT == 120        \* substring(0, 120)
DESCRIPTION_CUT == 200  \* substring(0, 200)

-----------------------------------------------------------------------------
(* sanitizeMetadata *)

\* A call of a string method on v: a TypeError unless v is a string
\* (numbers, booleans, arrays and objects have neither split nor substring).
MethodCallThrows(v) == v.t # "string"

\* s => s.trim().toLowerCase()
NormalizeToken(s) == ToLowerCase(Trim(s))

\* (data.keywords || "").split(',').map(...).filter(Boolean), for a string
KeywordTokens(v) ==
    LET pieces == Split(v.s)
    IN  FilterBoolean([i \in 1..Len(pieces) |-> NormalizeToken(pieces[i])])

\* Variant: the cycle runs over the array as it grows (kw[i % kw.length]).
PadSource_growing(kw, i, originalCount) == kw[(i % Len(kw)) + 1]

\* kw[i % originalCount] of the padding loop
PadSource(kw, i, originalCount) == kw[(i % originalCount) + 1]

\* for (let i = 0; kw.length < 49; i++) kw.push(`${kw[i % originalCount]}_concept`)
RECURSIVE PadLoop(_, _, _)
PadLoop(kw, i, originalCount) ==
    IF Len(kw) < KEYWORD_COUNT
    THEN PadLoop(Append(kw, PadSource(kw, i, originalCount) \o Chars("_concept")),
                 i + 1, originalCount)
    ELSE kw

\* Variant: the cut is one short (slice(0, 48)).
FitKeywords_cutShort(kw) ==
    IF Len(kw) > KEYWORD_COUNT THEN SubSeq(kw, 1, KEYWORD_COUNT - 1)
    ELSE IF Len(kw) < KEYWORD_COUNT /\ Len(kw) > 0 THEN PadLoop(kw, 0, Len(kw))
    ELSE kw

\* Variant: slice(-49), the last 49 tokens are kept.
FitKeywords_last(kw) ==
    IF Len(kw) > KEYWORD_COUNT THEN SubSeq(kw, Len(kw) - KEYWORD_COUNT + 1, Len(kw))
    ELSE IF Len(kw) < KEYWORD_COUNT /\ Len(kw) > 0 THEN PadLoop(kw, 0, Len(kw))
    ELSE kw

\* if (kw.length > 49) slice(0, 49) else if (kw.length < 49 && kw.length > 0) pad
FitKeywords(kw) ==
    IF Len(kw) > KEYWORD_COUNT THEN SubSeq(kw, 1, KEYWORD_COUNT)
    ELSE IF Len(kw) < KEYWORD_COUNT /\ Len(kw) > 0 THEN PadLoop(kw, 0, Len(kw))
    ELSE kw

\* Variant: the cut keeps the end of the title (slice(-120)).
TitleOf_tail(v) ==
    LET s == OrElse(v, Str(Chars("Untitled Stock Asset"))).s
    IN  IF Len(s) <= TITLE_CUT THEN s ELSE SubSeq(s, Len(s) - TITLE_CUT + 1, Len(s))

\* (data.title || "Untitled Stock Asset").substring(0, 120)
TitleOf(v) == Substring0(OrElse(v, Str(Chars("Untitled Stock Asset"))).s, TITLE_CUT)

\* Variant: the description falls back on the title's fallback text.
DescriptionOf_titleFallback(v) ==
    Substring0(OrElse(v, Str(Chars("Untitled Stock Asset"))).s, DESCRIPTION_CUT)

\* (data.description || "High quality ...").substring(0, 200)
DescriptionOf(v) ==
    Substring0(OrElse(v, Str(Chars("High quality commercial stock asset for creative projects."))).s,
               DESCRIPTION_CUT)

\* Variant: the "graphic" fallback on every platform.
MainTagOf_hardFallback(v, kw, plat) ==
    LET first == IF Len(kw) > 0 THEN Str(kw[1]) ELSE Undef
    IN  OrElse(OrElse(v, first), Str(Chars("graphic")))

\* isTeepublic ? (data.mainTag || kw[0] || "graphic") : (data.mainTag || kw[0] || "")
MainTagOf(v, kw, plat) ==
    LET first == IF Len(kw) > 0 THEN Str(kw[1]) ELSE Undef
    IN  IF plat = "Teepublic"
        THEN OrElse(OrElse(v, first), Str(Chars("graphic")))
        ELSE OrElse(OrElse(v, first), Str(Chars("")))

\* Variant: any non-empty string passes for a category.
IsCategory_anyString(v) == v.t = "string" /\ Len(v.s) > 0

\* SHUTTERSTOCK_CATEGORIES.includes(v): strict equality with one of the entries
IsCategory(v) ==
    v.t = "string" /\ \E i \in 1..Len(SHUTTERSTOCK_CATEGORIES) : v.s = SHUTTERSTOCK_CATEGORIES[i]

\* Variant: a valid provider category is kept on every platform.
CategoryOf_everyPlatform(v, position, plat) ==
    IF v.t = "string" /\ (\E i \in 1..Len(SHUTTERSTOCK_CATEGORIES) : v.s = SHUTTERSTOCK_CATEGORIES[i])
    THEN v
    ELSE IF plat = "Shutterstock" THEN Str(SHUTTERSTOCK_CATEGORIES[position + 1])
    ELSE Undef

\* isShutterstock ? (includes(v) ? v : SHUTTERSTOCK_CATEGORIES[position]) : undefined
CategoryOf(v, position, plat) ==
    IF plat = "Shutterstock"
    THEN IF IsCategory(v) THEN v ELSE Str(SHUTTERSTOCK_CATEGORIES[position + 1])
    ELSE Undef

\* What a call leaves when it throws: no Metadata value.
Thrown ==
    [threw |-> TRUE, title |-> <<>>, description |-> <<>>, keywords |-> <<>>,
     mainTag |-> Undef, category1 |-> Undef, category2 |-> Undef]

SanitizeMetadata(d, plat) ==
    LET k == OrElse(d.keywords, Str(Chars("")))
        t == OrElse(d.title, Str(Chars("Untitled Stock Asset")))
        e == OrElse(d.description, Str(Chars("High quality commercial stock asset for creative projects.")))
    IN  IF MethodCallThrows(k) \/ MethodCallThrows(t) \/ MethodCallThrows(e)
        THEN Thrown
        ELSE LET kw == FitKeywords(KeywordTokens(k))
             IN  [threw       |-> FALSE,
                  title       |-> TitleOf(d.title),
                  description |-> DescriptionOf(d.description),
                  keywords    |-> Join(kw, Chars(", ")),
                  mainTag     |-> MainTagOf(d.mainTag, kw, plat),
                  category1   |-> CategoryOf(d.category1, 0, plat),
                  category2   |-> CategoryOf(d.category2, 1, plat)]

-----------------------------------------------------------------------------
(* Provider objects handed to sanitizeMetadata *)

Digit(k) == CASE k = 0 -> "0" [] k = 1 -> "1" [] k = 2 -> "2" [] k = 3 -> "3"
              [] k = 4 -> "4" [] k = 5 -> "5" [] k = 6 -> "6" [] k = 7 -> "7"
              [] k = 8 -> "8" [] k = 9 -> "9"

Letter(k) == CASE k = 0 -> "S" [] k = 1 -> "u" [] k = 2 -> "n" [] k = 3 -> "s"
               [] k = 4 -> "e" [] k = 5 -> "t" [] k = 6 -> " "

\* A text of n characters whose character depends on its position (period 7).
GenText(n) == [i \in 1..n |-> Letter(i % 7)]

\* The i-th keyword as the provider may write it: tidy ("k07"), or in upper
\* case and surrounded by white space (" K07 ").
TidyToken(i)  == <<"k", Digit(i \div 10), Digit(i % 10)>>
MessyToken(i) == <<" ", "K", Digit(i \div 10), Digit(i % 10), " ", " ">>

\* n keywords separated by commas; the messy list also has an empty piece
\* after every third keyword and a trailing comma.
RECURSIVE TidyList(_, _)
TidyList(i, n) ==
    IF i > n THEN <<>>
    ELSE IF i = n THEN TidyToken(i)
    ELSE TidyToken(i) \o <<",">> \o TidyList(i + 1, n)

RECURSIVE MessyList(_, _)
MessyList(i, n) ==
    IF i > n THEN <<>>
    ELSE MessyToken(i) \o <<",">> \o (IF i % 3 = 0 THEN <<" ", ",">> ELSE <<>>)
         \o MessyList(i + 1, n)

CatCatDog == <<"C","a","t",","," ","C","a","t",","," ","D","o","g">>

KeywordCounts == (1..3) \cup {24, 25} \cup ((KEYWORD_COUNT - 1)..MaxTokens)

KeywordInputs ==
    {Undef, Null, Num(0), Num(123), Bool(TRUE), Arr, Obj,
     Str(<<>>), Str(<<" ", ",", " ", ",">>), Str(CatCatDog)}
    \cup {Str(TidyList(1, n)) : n \in KeywordCounts}
    \cup {Str(MessyList(1, n)) : n \in KeywordCounts}

TitleInputs ==
    {Undef, Null, Num(0), Num(7), Bool(FALSE), Arr, Str(<<>>), Str(GenText(6))}
    \cup {Str(GenText(n)) : n \in (TITLE_CUT - 1)..(TITLE_CUT + MaxExtraChars)}

DescriptionInputs ==
    {Undef, Bool(TRUE), Obj, Str(<<>>), Str(GenText(30))}
    \cup {Str(GenText(n)) : n \in (DESCRIPTION_CUT - 1)..(DESCRIPTION_CUT + MaxExtraChars)}

MainTagInputs ==
    {Undef, Null, Num(0), Num(5), Bool(FALSE), Arr, Str(<<>>), Str(<<" ">>),
     Str(<<"N","i","c","h","e">>)}

CategoryInputs ==
    {Undef, Null, Num(3), Arr, Str(<<>>), Str(<<"Bogus">>), Str(<<"nature">>),
     Str(<<"Abstract">>), Str(<<"Animals/Wildlife">>), Str(<<"Nature">>),
     Str(<<"Vintage">>)}

\* A well-formed answer of the provider; the families below vary it.
GoodObject ==
    [title |-> Str(GenText(40)), description |-> Str(GenText(90)),
     keywords |-> Str(TidyList(1, KEYWORD_COUNT)), mainTag |-> Undef,
     category1 |-> Str(<<"Nature">>), category2 |-> Str(<<"Objects">>)]

EmptyObject ==
    [title |-> Undef, description |-> Undef, keywords |-> Undef, mainTag |-> Undef,
     category1 |-> Undef, category2 |-> Undef]

\* The fields sanitizeMetadata combines are varied together: title with
\* description, keywords with mainTag (mainTag falls back on kw[0]), category1
\* with category2; each family on top of the empty and of the well-formed
\* object, and with a wrong-typed title or keywords next to it.
ProviderObjects ==
    {[b EXCEPT !.title = t, !.description = e] :
        b \in {EmptyObject, GoodObject}, t \in TitleInputs, e \in DescriptionInputs}
    \cup {[b EXCEPT !.keywords = k, !.mainTag = m] :
        b \in {EmptyObject, GoodObject}, k \in KeywordInputs, m \in MainTagInputs}
    \cup {[b EXCEPT !.category1 = c1, !.category2 = c2] :
        b \in {EmptyObject, GoodObject, [GoodObject EXCEPT !.title = Num(7)]},
        c1 \in CategoryInputs, c2 \in CategoryInputs}
    \cup {[GoodObject EXCEPT !.title = t, !.keywords = k] :
        t \in TitleInputs, k \in KeywordInputs}

-----------------------------------------------------------------------------
(* generateAssetMetadata *)

ENGINES == {"gemini", "groq"}

\* The Metadata of a freshly added asset: { title: '', description: '', keywords: '' }
EmptyMetadata ==
    [title |-> <<>>, description |-> <<>>, keywords |-> <<>>,
     mainTag |-> Undef, category1 |-> Undef, category2 |-> Undef]

MetadataOf(r) ==
    [title |-> r.title, description |-> r.description, keywords |-> r.keywords,
     mainTag |-> r.mainTag, category1 |-> r.category1, category2 |-> r.category2]

\* One call: its arguments (the asset's id, type and whether asset.file.type
\* starts with 'image/', the platform, the engine context), its position
\*   "start"            entered, nothing executed yet
\*   "readFile"         suspended in fileToGenerativePart
\*   "fetch"            suspended in fetch (groq)
\*   "generateContent"  suspended in ai.models.generateContent (gemini)
\*   "returned" / "thrown"
\* the number of provider requests it has issued, whether its request
\* carries image data, the parts of its request, what the round-trip ended
\* with, whether sanitizeMetadata was invoked, and what it settled with.
NoOutcome == [kind |-> "none", data |-> EmptyObject, message |-> ""]

NewCall(id, type, image, plat, engine, key, batch) ==
    [asset |-> id, type |-> type, image |-> image, platform |-> plat,
     engine |-> engine, key |-> key, batch |-> batch,
     pc |-> "start", requests |-> 0, attached |-> FALSE, parts |-> <<>>,
     out |-> NoOutcome, sanitized |-> FALSE,
     message |-> "", metadata |-> EmptyMetadata, prompt |-> <<>>]

\* Variant: after a failed round-trip the request is sent once more.
Throw_retryOnce(g, message) ==
    IF g.requests = 1 THEN [g EXCEPT !.requests = 2]
    ELSE [g EXCEPT !.pc = "thrown", !.message = message]

\* throw new Error(message), or the rejection of an awaited promise
Throw(g, message) == [g EXCEPT !.pc = "thrown", !.message = message]

\* Variant: only an absent key is refused (context.groqKey === undefined).
KeyMissing_absentOnly(key) == key.t = "undefined"

\* if (!context.groqKey): the key is absent (undefined) or the empty string
KeyMissing(key) == ~Truthy(key)

\* Variant: the file of every asset is read and attached.
IsImageAsset_anyFile(g) == TRUE

\* asset.type !== 'Video' && asset.file.type.startsWith('image/')
IsImageAsset(g) == g.type # "Video" /\ g.image

\* file.name of the asset with this id; the name of every second file
\* holds a double quote.
FileName(id) ==
    IF id % 2 = 1 THEN <<"a", ".", "j", "p", "g">>
    ELSE <<"b", "\"", "c", ".", "m", "p", "4">>

\* Variant: the main-tag instruction is given for every marketplace.
MainTagDirective_always(plat) ==
    <<"5. TEEPUBLIC: Select a single, extremely relevant \"Main Tag\" that summarizes the core niche.">>

\* ${isTeepublic ? '5. TEEPUBLIC: ...' : ''}
MainTagDirective(plat) ==
    IF plat = "Teepublic"
    THEN <<"5. TEEPUBLIC: Select a single, extremely relevant \"Main Tag\" that summarizes the core niche.">>
    ELSE <<>>

\* ${isShutterstock ? `6. SHUTTERSTOCK: ... ${SHUTTERSTOCK_CATEGORIES.join(', ')}. Ensure ...` : ''}
CategoryDirective(plat) ==
    IF plat = "Shutterstock"
    THEN <<"6. SHUTTERSTOCK: You MUST select the two most accurate categories from this list: ">>
         \o Join(SHUTTERSTOCK_CATEGORIES, <<", ">>)
         \o <<". Ensure they represent the visual genre.">>
    ELSE <<>>

\* ${isShutterstock ? ', "category1": "CategoryName", "category2": "CategoryName"' : ''}
CategoryFields(plat) ==
    IF plat = "Shutterstock"
    THEN <<", \"category1\": \"CategoryName\", \"category2\": \"CategoryName\"">>
    ELSE <<>>

\* The template literal of the prompt, as the sequence of its pieces: the
\* fixed text in pieces, the file name character by character, the type and
\* the marketplace as one piece each.
BuildPrompt(name, type, plat) ==
    <<"You are a high-level Stock Media Strategist. Your goal is to generate metadata that is 100% ACCURATE to the visual content provided. Do NOT guess. Analyze the actual image data carefully.",
      "ASSET INFO:", "- Filename: ">> \o name
    \o <<"- Type: ", type, "- Platform: ", plat,
          "INSTRUCTIONS:",
          "1. VISUAL ANALYSIS", "2. TITLE (Max 120 chars)",
          "3. DESCRIPTION (Max 200 chars)", "4. KEYWORDS (EXACTLY 49)">>
    \o MainTagDirective(plat)
    \o CategoryDirective(plat)
    \o <<"STRICT JSON OUTPUT:",
          "{ \"title\": \"string\", \"description\": \"string\", \"keywords\": \"k1, k2, ..., k49\", ",
          "\"mainTag\": \"string\"">>
    \o CategoryFields(plat)
    \o <<" }">>

\* From the entry to the first suspension (or to the throw): the prompt is
\* built first.  The groq request carries the prompt as its user message; the
\* gemini request starts as parts = [{ text: prompt }].
GenEnter(call) ==
    LET g == [call EXCEPT !.prompt = BuildPrompt(FileName(call.asset), call.type, call.platform)]
    IN  IF g.engine = "groq"
        THEN IF KeyMissing(g.key)
             THEN Throw(g, "Groq API Key missing")
             ELSE [g EXCEPT !.pc = "fetch", !.requests = g.requests + 1,
                            !.parts = <<"text">>]
        ELSE IF IsImageAsset(g)
             THEN [g EXCEPT !.pc = "readFile"]
             ELSE [g EXCEPT !.pc = "generateContent", !.requests = g.requests + 1,
                            !.parts = <<"text">>]

\* fileToGenerativePart settled: the image part is pushed and generateContent
\* is called, or the FileReader failed (reader.onerror = reject: the
\* rejection carries an event, which has no message).
GenFileRead(g, readOk) ==
    IF readOk
    THEN [g EXCEPT !.pc = "generateContent", !.requests = g.requests + 1,
                   !.attached = TRUE, !.parts = <<"text", "inlineData">>]
    ELSE Throw(g, "")

\* Objects the provider's JSON text parses to.
Responses == {EmptyObject, [EmptyObject EXCEPT !.keywords = Num(123)]}

\* What the network round-trip of a call can end with:
\*   ok        the provider answered with text that parses to `data`
\*   notext    (gemini) the response has no text (response.text is undefined or "")
\*   status    (groq) a non-success HTTP status with a JSON body; `message` is
\*             err.error?.message ("" when the body carries none)
\*   statusraw (groq) a non-success HTTP status whose body is not JSON:
\*             response.json() rejects with a SyntaxError
\*   reject    fetch / generateContent raised an error with `message`
\*   badjson   the provider's text is not parseable JSON
Outcomes(engine) ==
    {[kind |-> "ok", data |-> d, message |-> ""] : d \in Responses}
    \cup {[kind |-> "reject", data |-> EmptyObject, message |-> m] :
            m \in IF engine = "gemini"
                  THEN {"Failed to fetch", "Requested entity was not found."}
                  ELSE {"Failed to fetch"}}
    \cup {[kind |-> "badjson", data |-> EmptyObject, message |-> "Unexpected token"]}
    \cup IF engine = "groq"
         THEN {[kind |-> "status", data |-> EmptyObject, message |-> m] :
                 m \in {"Rate limit reached", ""}}
              \cup {[kind |-> "statusraw", data |-> EmptyObject,
                     message |-> "Unexpected token"]}
         ELSE {[kind |-> "notext", data |-> EmptyObject, message |-> ""]}

\* Variant: text that does not parse is taken for the empty object.
ParsedText_lenient(out) == [parsed |-> TRUE, data |-> out.data]

\* JSON.parse(json.choices[0].message.content) / JSON.parse(response.text || "{}"):
\* whether the parse succeeds, and the object it gives.
ParsedText(out) ==
    IF out.kind = "notext" THEN [parsed |-> TRUE, data |-> EmptyObject]
    ELSE [parsed |-> out.kind = "ok", data |-> out.data]

\* The round-trip ended with `out`: the call returns the sanitized Metadata
\* or throws.
GenResume(g, out) ==
    LET h == [g EXCEPT !.out = out]
    IN  CASE out.kind = "status" ->
               Throw(h, IF out.message # "" THEN out.message ELSE "Groq API Error")
          [] out.kind \in {"reject", "statusraw"} -> Throw(h, out.message)
          [] OTHER ->
               LET t == ParsedText(out)
                   r == SanitizeMetadata(t.data, g.platform)
               IN  IF ~t.parsed THEN Throw(h, out.message)
                   ELSE IF r.threw THEN Throw([h EXCEPT !.sanitized = TRUE], "TypeError")
                   ELSE [h EXCEPT !.pc = "returned", !.sanitized = TRUE,
                                  !.metadata = MetadataOf(r)]

-----------------------------------------------------------------------------
(* The specification of generateAssetMetadata: one call *)

MIN_KEY_LENGTH == 10   \* groqKey.length < 10 of handleGenerateAll

\* A credential of n characters.
KeyOfLen(n) == [i \in 1..n |-> "k"]

Keys == {KeyOfLen(n) : n \in {0, MIN_KEY_LENGTH - 1, MIN_KEY_LENGTH, MaxKeyLen}}

\* detectAssetType and file.type.startsWith('image/') of the files a user can add
FileKinds ==
    {[type |-> "Photo", image |-> TRUE], [type |-> "Photo", image |-> FALSE],
     [type |-> "Vector", image |-> TRUE], [type |-> "Vector", image |-> FALSE],
     [type |-> "Video", image |-> FALSE], [type |-> "Video", image |-> TRUE]}

Idle == NewCall(0, "Photo", FALSE, "Shutterstock", "gemini", Undef, FALSE)

GenInit ==
    \E f \in FileKinds, p \in PLATFORMS, e \in ENGINES,
       k \in {Undef} \cup {Str(x) : x \in Keys} :
        \E id \in 1..2 : gen = NewCall(id, f.type, f.image, p, e, k, FALSE)

GenCall ==
    /\ UNCHANGED <<svars, avars, edit, csv>>
    /\ gen.pc = "start"
    /\ gen' = GenEnter(gen)

GenRead ==
    /\ UNCHANGED <<svars, avars, edit, csv>>
    /\ gen.pc = "readFile"
    /\ \E readOk \in BOOLEAN : gen' = GenFileRead(gen, readOk)

GenSettle ==
    /\ UNCHANGED <<svars, avars, edit, csv>>
    /\ gen.pc \in {"fetch", "generateContent"}
    /\ \E out \in Outcomes(gen.engine) : gen' = GenResume(gen, out)

-----------------------------------------------------------------------------
(* editImageAsset *)

\* A content part of the editor's response: text, or inline image data.
TextPart == [inlineData |-> FALSE, data |-> ""]
ImagePart(d) == [inlineData |-> TRUE, data |-> d]

PartKinds == {TextPart, ImagePart("QUJD"), ImagePart("REVG")}

RECURSIVE PartLists(_)
PartLists(n) ==
    IF n = 0 THEN {<<>>}
    ELSE PartLists(n - 1)
         \cup {Append(l, q) : l \in {x \in PartLists(n - 1) : Len(x) = n - 1}, q \in PartKinds}

\* What generateContent can resolve with: `shape` tells how far
\* response.candidates[0].content.parts exists
\*   "nocandidates"     candidates is undefined
\*   "emptycandidates"  candidates is []
\*   "nocontent"        candidates[0] has no content
\*   "noparts"          content has no parts
\*   "parts"            parts is the array `parts`
EditResponses ==
    {[shape |-> sh, parts |-> <<>>] :
        sh \in {"nocandidates", "emptycandidates", "nocontent", "noparts"}}
    \cup {[shape |-> "parts", parts |-> l] : l \in PartLists(MaxParts)}

\* `data:image/png;base64,${part.inlineData.data}`
DataUri(d) == <<"data:image/png;base64,", d>>

\* for (const part of parts) if (part.inlineData) return `data:...`: the URI
\* of the first part with inline data, <<>> when the loop ends without one.
RECURSIVE FirstInline(_)
FirstInline(parts) ==
    IF Len(parts) = 0 THEN <<>>
    ELSE IF parts[1].inlineData THEN DataUri(parts[1].data)
    ELSE FirstInline(Tail(parts))

\* One call of editImageAsset: "readFile" (suspended in
\* fileToGenerativePart), "generateContent", "returned" / "thrown".
NoEdit == [pc |-> "idle", image |-> FALSE, response |-> [shape |-> "none", parts |-> <<>>],
           requests |-> 0, uri |-> <<>>, message |-> ""]

NewEdit(image) == [NoEdit EXCEPT !.pc = "readFile", !.image = image]

\* fileToGenerativePart settled, generateContent is called
EditFileRead(e, readOk) ==
    IF readOk THEN [e EXCEPT !.pc = "generateContent", !.requests = e.requests + 1]
    ELSE [e EXCEPT !.pc = "thrown", !.message = ""]

\* generateContent rejected
EditReject(e, message) == [e EXCEPT !.pc = "thrown", !.message = message]

\* generateContent resolved with r: response.candidates[0].content.parts is
\* read (a TypeError when a link of the chain is undefined, or when parts is
\* not iterable), then scanned.
EditResume(e, r) ==
    LET h == [e EXCEPT !.response = r]
    IN  IF r.shape # "parts"
        THEN [h EXCEPT !.pc = "thrown", !.message = "TypeError"]
        ELSE IF FirstInline(r.parts) # <<>>
        THEN [h EXCEPT !.pc = "returned", !.uri = FirstInline(r.parts)]
        ELSE [h EXCEPT !.pc = "thrown",
                       !.message = "No image data returned from AI editor"]

EditInit == \E image \in BOOLEAN : edit = NewEdit(image)

EditRead ==
    /\ edit.pc = "readFile"
    /\ \E readOk \in BOOLEAN : edit' = EditFileRead(edit, readOk)
    /\ UNCHANGED <<svars, avars, gen, csv>>

EditSettle ==
    /\ edit.pc = "generateContent"
    /\ \/ edit' = EditReject(edit, "Failed to fetch")
       \/ \E r \in EditResponses : edit' = EditResume(edit, r)
    /\ UNCHANGED <<svars, avars, gen, csv>>

-----------------------------------------------------------------------------
(* The pipeline as it is kept in localStorage *)

\* previewUrl of a new asset: an object URL for an image or a video file,
\* undefined (here "") for any other file
PreviewOf(shown) == IF shown THEN "blob:file" ELSE ""

\* assets.map(({ file, previewUrl, ...rest }) => rest): what JSON.stringify
\* writes of the list, the File and the preview URL left out
Stored(list) ==
    [k \in 1..Len(list) |->
        [id |-> list[k].id, name |-> list[k].name, type |-> list[k].type,
         status |-> list[k].status, metadata |-> list[k].metadata,
         error |-> list[k].error]]

\* The effect on [assets]: after a render with a new list, the list is saved.
SaveEffect == store' = Stored(assets')

-----------------------------------------------------------------------------
(* exportCSV *)

\* s.replace(/"/g, '""'): every double quote is replaced by two (the string
\* is rewritten half by half)
RECURSIVE DoubleQuotes(_)
DoubleQuotes(s) ==
    IF Len(s) = 0 THEN <<>>
    ELSE IF Len(s) = 1 THEN (IF s[1] = "\"" THEN <<"\"", "\"">> ELSE s)
    ELSE LET half == Len(s) \div 2
         IN  DoubleQuotes(SubSeq(s, 1, half)) \o DoubleQuotes(SubSeq(s, half + 1, Len(s)))

\* esc = (s) => `"${(s || '').replace(/"/g, '""')}"`, for a string
Esc(s) == <<"\"">> \o DoubleQuotes(s) \o <<"\"">>

\* esc(v) for a JavaScript value: (v || '') is v when truthy, '' otherwise
EscValue(v) == Esc(OrElse(v, Str(<<>>)).s)

\* [category1, category2].filter(Boolean).join(',')
Cats(m) ==
    LET kept == SelectSeq(<<m.category1, m.category2>>, Truthy)
    IN  Join([i \in 1..Len(kept) |-> kept[i].s], <<",">>)

\* The header line of the export
HeaderOf(plat) ==
    IF plat = "Shutterstock"
    THEN <<"Filename", "Description", "Keywords", "Categories", "Editorial",
           "Mature Content", "Illustration">>
    ELSE IF plat = "Teepublic"
    THEN <<"Filename", "Title", "Description", "Keywords", "Main Tag">>
    ELSE <<"Filename", "Description", "Keywords">>

\* The cells of the row of asset a
RowOf(a, plat) ==
    IF plat = "Shutterstock"
    THEN <<Esc(a.name), Esc(a.metadata.description), Esc(a.metadata.keywords),
           Esc(Cats(a.metadata)), <<"n", "o">>, <<"n", "o">>,
           IF a.type = "Vector" THEN <<"y", "e", "s">> ELSE <<"n", "o">>>>
    ELSE IF plat = "Teepublic"
    THEN <<Esc(a.name), Esc(a.metadata.title), Esc(a.metadata.description),
           Esc(a.metadata.keywords), EscValue(a.metadata.mainTag)>>
    ELSE <<Esc(a.name), Esc(a.metadata.title), Esc(a.metadata.description),
           Esc(a.metadata.keywords)>>

NoCsv == [exported |-> FALSE, header |-> <<>>, rows |-> <<>>]

\* exportCSV: the assets in status 'success', one row each; nothing is
\* exported when there is none.
ExportCSV(list, plat) ==
    LET successAssets == SelectSeq(list, LAMBDA a : a.status = "success")
    IN  IF Len(successAssets) = 0 THEN NoCsv
        ELSE [exported |-> TRUE,
              header |-> HeaderOf(plat),
              rows |-> [k \in 1..Len(successAssets) |-> RowOf(successAssets[k], plat)]]

\* Metadata as generations leave it, with a double quote in the title.
ExportObjects ==
    {EmptyObject,
     [EmptyObject EXCEPT !.title = Str(<<"A", " ", "\"", "b", "\"">>),
                         !.description = Str(<<"d", ",", "e">>),
                         !.keywords = Str(CatCatDog),
                         !.category1 = Str(<<"Nature">>)]}

ExportAssets(id) ==
    {[id |-> id, name |-> FileName(id), previewUrl |-> PreviewOf(TRUE),
      type |-> t, image |-> TRUE, status |-> st,
      metadata |-> MetadataOf(SanitizeMetadata(o, p)), error |-> ""] :
        t \in {"Photo", "Vector"}, st \in {"success", "error"},
        o \in ExportObjects, p \in {"Shutterstock", "Teepublic"}}

ExportInit ==
    /\ platform \in PLATFORMS
    /\ assets \in {<<a>> : a \in ExportAssets(1)}
                  \cup {<<b, a>> : b \in ExportAssets(2), a \in ExportAssets(1)}
    /\ csv = NoCsv

Export ==
    /\ ~csv.exported
    /\ csv' = ExportCSV(assets, platform)
    /\ csv'.exported
    /\ UNCHANGED <<svars, avars, gen, edit>>

-----------------------------------------------------------------------------
(* App *)

NoRun == [active |-> FALSE, pending |-> <<>>, i |-> 0,
          platform |-> "Shutterstock", engine |-> "gemini", key |-> <<>>]

AppInit ==
    /\ assets = <<>>
    /\ platform = "Shutterstock"
    /\ activeEngine \in ENGINES
    /\ groqKey \in Keys
    /\ hasGeminiKey \in BOOLEAN
    /\ isGenerating = FALSE
    /\ isOnline \in BOOLEAN
    /\ run = NoRun
    /\ calls = <<>>
    /\ store = <<>>
    /\ nextId = 0
    /\ changes = 0

\* prev.filter(a => a.id !== id)
RECURSIVE FilterOut(_, _)
FilterOut(list, id) ==
    IF Len(list) = 0 THEN <<>>
    ELSE IF list[1].id = id THEN FilterOut(Tail(list), id)
    ELSE <<list[1]>> \o FilterOut(Tail(list), id)

\* assets.filter(a => a.status !== 'success'); of the snapshot, runGeneration
\* reads the id, the type and the file
RECURSIVE PendingAssets(_)
PendingAssets(list) ==
    IF Len(list) = 0 THEN <<>>
    ELSE IF list[1].status # "success"
         THEN <<[id |-> list[1].id, type |-> list[1].type, image |-> list[1].image]>>
              \o PendingAssets(Tail(list))
    ELSE PendingAssets(Tail(list))

RemoveAt(seq, j) == SubSeq(seq, 1, j - 1) \o SubSeq(seq, j + 1, Len(seq))

\* The catch block of runGeneration: the asset's error text.
ErrorText(message) ==
    IF message = "Requested entity was not found." THEN "Gemini Key Invalid. Please re-select."
    ELSE IF message # "" THEN message
    ELSE "AI Engine Error"

\* prev.map(a => a.id === targetAsset.id ? { ...a, status: 'error', error } : a)
MarkError(list, id, error) ==
    [k \in 1..Len(list) |->
        IF list[k].id = id THEN [list[k] EXCEPT !.status = "error", !.error = error]
        ELSE list[k]]

\* Variant: an asset that is no longer in the list is put back with its
\* result.
MarkSuccess_upsert(list, id, metadata) ==
    IF \E k \in 1..Len(list) : list[k].id = id
    THEN [k \in 1..Len(list) |->
            IF list[k].id = id THEN [list[k] EXCEPT !.status = "success", !.metadata = metadata]
            ELSE list[k]]
    ELSE Append(list, [id |-> id, type |-> "Photo", image |-> FALSE,
                       name |-> <<>>, previewUrl |-> "",
                       status |-> "success", metadata |-> metadata, error |-> ""])

\* prev.map(a => a.id === targetAsset.id ? { ...a, status: 'success', metadata } : a)
MarkSuccess(list, id, metadata) ==
    [k \in 1..Len(list) |->
        IF list[k].id = id THEN [list[k] EXCEPT !.status = "success", !.metadata = metadata]
        ELSE list[k]]

\* Variant: no catch block, a call that throws leaves the list as it is.
AfterCall_uncaught(list, g) ==
    IF g.pc = "returned" THEN MarkSuccess(list, g.asset, g.metadata)
    ELSE list

\* runGeneration once generateAssetMetadata settled as g (returned or thrown)
AfterCall(list, g) ==
    IF g.pc = "returned" THEN MarkSuccess(list, g.asset, g.metadata)
    ELSE MarkError(list, g.asset, ErrorText(g.message))

\* runGeneration(asset) for each call of cs in turn, each up to its first
\* suspension, on top of st = [assets, calls]: offline -> the asset is
\* marked and generateAssetMetadata is not called; a call that throws at once
\* marks its asset; any other call is suspended.
RECURSIVE StartCalls(_, _)
StartCalls(cs, st) ==
    IF Len(cs) = 0 THEN st
    ELSE LET g == GenEnter(cs[1])
             nxt ==
               IF ~isOnline
               THEN [st EXCEPT !.assets = MarkError(st.assets, cs[1].asset,
                                                    "No internet connection")]
               ELSE IF g.pc = "thrown"
               THEN [st EXCEPT !.assets = AfterCall(st.assets, g)]
               ELSE [st EXCEPT !.calls = Append(st.calls, g)]
         IN  StartCalls(Tail(cs), nxt)

CallFor(a, plat, engine, key, batch) ==
    NewCall(a.id, a.type, a.image, plat, engine, Str(key), batch)

BATCH_SIZE == 5

\* Variant: no slicing, all the assets left are started at once.
BatchCalls_unsliced(r) ==
    [k \in 1..(Len(r.pending) - r.i) |->
        CallFor(r.pending[r.i + k], r.platform, r.engine, r.key, TRUE)]

\* pendingAssets.slice(i, i + BATCH_SIZE).map(asset => runGeneration(asset))
BatchCalls(r) ==
    LET hi == IF r.i + BATCH_SIZE < Len(r.pending) THEN r.i + BATCH_SIZE ELSE Len(r.pending)
    IN  [k \in 1..(hi - r.i) |->
            CallFor(r.pending[r.i + k], r.platform, r.engine, r.key, TRUE)]

HereState == [assets |-> assets, calls |-> calls]

\* The suspended calls stay within the bound of the model; the calls of one
\* batch alone always do.
Fits(st) ==
    \/ Len(st.calls) <= MaxInFlight
    \/ \A j \in 1..Len(st.calls) : st.calls[j].batch

\* The files the user of the App adds: an image and a video.
AppFileKinds == {[type |-> "Photo", image |-> TRUE], [type |-> "Video", image |-> FALSE]}

\* addAssetsFromFiles: the new assets go in front of the list.
AddAssets ==
    /\ UNCHANGED <<svars, gen, edit, csv>>
    /\ \E f \in AppFileKinds :
        /\ nextId < MaxAssets
        /\ assets' = <<[id |-> nextId + 1, type |-> f.type, image |-> f.image,
                        name |-> FileName(nextId + 1), previewUrl |-> PreviewOf(TRUE),
                        status |-> "idle", metadata |-> EmptyMetadata, error |-> ""]>>
                     \o assets
        /\ SaveEffect
        /\ nextId' = nextId + 1
        /\ UNCHANGED <<platform, activeEngine, groqKey, hasGeminiKey, isGenerating,
                       isOnline, run, calls, changes>>

SetPlatform ==
    /\ UNCHANGED <<svars, gen, edit, csv>>
    /\ \E p \in PLATFORMS :
        /\ p # platform
        /\ changes < MaxSettingChanges
        /\ changes' = changes + 1
        /\ platform' = p
        /\ UNCHANGED <<assets, store, activeEngine, groqKey, hasGeminiKey, isGenerating,
                       isOnline, run, calls, nextId>>

SetActiveEngine ==
    /\ UNCHANGED <<svars, gen, edit, csv>>
    /\ \E e \in ENGINES :
        /\ e # activeEngine
        /\ changes < MaxSettingChanges
        /\ changes' = changes + 1
        /\ activeEngine' = e
        /\ UNCHANGED <<assets, store, platform, groqKey, hasGeminiKey, isGenerating,
                       isOnline, run, calls, nextId>>

\* onChange of the key input, shown only with the groq engine
SetGroqKey ==
    /\ UNCHANGED <<svars, gen, edit, csv>>
    /\ \E k \in Keys :
        /\ activeEngine = "groq"
        /\ k # groqKey
        /\ changes < MaxSettingChanges
        /\ changes' = changes + 1
        /\ groqKey' = k
        /\ UNCHANGED <<assets, store, platform, activeEngine, hasGeminiKey, isGenerating,
                       isOnline, run, calls, nextId>>

\* the 'online' / 'offline' events of the window
ToggleOnline ==
    /\ UNCHANGED <<svars, gen, edit, csv>>
    /\ isOnline' = ~isOnline
    /\ UNCHANGED <<assets, store, platform, activeEngine, groqKey, hasGeminiKey, isGenerating,
                   run, calls, nextId, changes>>

\* handleGenerateAll stopped by a validation: the Gemini key dialog is
\* opened (handleSelectGeminiKey), or an alert is shown.
GenerateAllRefused ==
    /\ UNCHANGED <<svars, gen, edit, csv>>
    /\ ~isGenerating /\ Len(assets) > 0 /\ isOnline
    /\ \/ /\ activeEngine = "gemini" /\ ~hasGeminiKey
          /\ hasGeminiKey' = TRUE
       \/ /\ activeEngine = "groq" /\ Len(groqKey) < MIN_KEY_LENGTH
          /\ UNCHANGED hasGeminiKey
    /\ UNCHANGED <<assets, store, platform, activeEngine, groqKey, isGenerating,
                   isOnline, run, calls, nextId, changes>>

\* Key validation of handleGenerateAll
EngineReady(engine, key, geminiKey) ==
    /\ ~(engine = "gemini" /\ ~geminiKey)
    /\ ~(engine = "groq" /\ Len(key) < MIN_KEY_LENGTH)

\* handleGenerateAll past its validations: the assets that are not 'success'
\* become 'pending' and the first batch is started at once.
HandleGenerateAll ==
    /\ UNCHANGED <<svars, gen, edit, csv>>
    /\ ~isGenerating /\ Len(assets) > 0 /\ isOnline
    /\ EngineReady(activeEngine, groqKey, hasGeminiKey)
    /\ Len(PendingAssets(assets)) > 0
    /\ LET r == [active |-> TRUE, pending |-> PendingAssets(assets), i |-> 0,
                 platform |-> platform, engine |-> activeEngine, key |-> groqKey]
           marked == [k \in 1..Len(assets) |->
                        IF assets[k].status # "success"
                        THEN [assets[k] EXCEPT !.status = "pending", !.error = ""]
                        ELSE assets[k]]
           st == StartCalls(BatchCalls(r), [HereState EXCEPT !.assets = marked])
       IN  /\ Fits(st)
           /\ isGenerating' = TRUE
           /\ run' = [r EXCEPT !.i = BATCH_SIZE]
           /\ assets' = st.assets
           /\ SaveEffect
           /\ calls' = st.calls
    /\ UNCHANGED <<platform, activeEngine, groqKey, hasGeminiKey, isOnline, nextId, changes>>

\* The continuation of handleGenerateAll once Promise.all of the batch
\* resolved: the next batch is started, or the run ends.
ContinueRun ==
    /\ UNCHANGED <<svars, gen, edit, csv>>
    /\ run.active
    /\ \A j \in 1..Len(calls) : ~calls[j].batch
    /\ IF run.i < Len(run.pending)
       THEN LET st == StartCalls(BatchCalls(run), HereState)
            IN  /\ Fits(st)
                /\ run' = [run EXCEPT !.i = run.i + BATCH_SIZE]
                /\ assets' = st.assets
                /\ SaveEffect
                /\ calls' = st.calls
                /\ UNCHANGED isGenerating
       ELSE /\ isGenerating' = FALSE
            /\ run' = NoRun
            /\ UNCHANGED <<assets, store, calls>>
    /\ UNCHANGED <<platform, activeEngine, groqKey, hasGeminiKey, isOnline, nextId, changes>>

\* onRegenerate={() => runGeneration(asset)}
Regenerate ==
    /\ UNCHANGED <<svars, gen, edit, csv>>
    /\ \E k \in 1..Len(assets) :
        LET c == CallFor(assets[k], platform, activeEngine, groqKey, FALSE)
            st == StartCalls(<<c>>, HereState)
        IN  /\ Fits(st)
            /\ assets' = st.assets
            /\ SaveEffect
            /\ calls' = st.calls
            /\ UNCHANGED <<platform, activeEngine, groqKey, hasGeminiKey, isGenerating,
                           isOnline, run, nextId, changes>>

\* fileToGenerativePart of the suspended call at position j settles.
FileReadAt(j) ==
    \E readOk \in BOOLEAN :
        LET g == GenFileRead(calls[j], readOk)
        IN  /\ calls[j].pc = "readFile"
            /\ IF g.pc = "thrown"
               THEN /\ assets' = AfterCall(assets, g)
                    /\ SaveEffect
                    /\ calls' = RemoveAt(calls, j)
               ELSE /\ calls' = [calls EXCEPT ![j] = g]
                    /\ UNCHANGED <<assets, store>>
            /\ UNCHANGED <<platform, activeEngine, groqKey, hasGeminiKey, isGenerating,
                           isOnline, run, nextId, changes>>

\* fileToGenerativePart of a suspended call settles.
FileRead ==
    /\ UNCHANGED <<svars, gen, edit, csv>>
    /\ \E j \in 1..Len(calls) : FileReadAt(j)

\* The outcomes the calls of the App are resumed with.
AppOutcomes(engine) ==
    {out \in Outcomes(engine) :
        \/ out.kind = "ok" /\ out.data = EmptyObject
        \/ out.kind \in {"reject", "badjson"}}

\* The round-trip of the suspended call at position j ends and
\* runGeneration resumes.
SettleAt(j) ==
    \E out \in AppOutcomes(calls[j].engine) :
        LET g == GenResume(calls[j], out)
        IN  /\ calls[j].pc \in {"fetch", "generateContent"}
            /\ calls' = RemoveAt(calls, j)
            /\ assets' = AfterCall(assets, g)
            /\ SaveEffect
            /\ hasGeminiKey' = IF g.pc = "thrown"
                                  /\ g.message = "Requested entity was not found."
                               THEN FALSE ELSE hasGeminiKey
            /\ UNCHANGED <<platform, activeEngine, groqKey, isGenerating, isOnline,
                           run, nextId, changes>>

\* The round-trip of a suspended call ends and runGeneration resumes.
Settle ==
    /\ UNCHANGED <<svars, gen, edit, csv>>
    /\ \E j \in 1..Len(calls) : SettleAt(j)

\* removeAsset
RemoveAsset ==
    /\ UNCHANGED <<svars, gen, edit, csv>>
    /\ \E k \in 1..Len(assets) :
        /\ assets' = FilterOut(assets, assets[k].id)
        /\ SaveEffect
        /\ UNCHANGED <<platform, activeEngine, groqKey, hasGeminiKey, isGenerating,
                       isOnline, run, calls, nextId, changes>>

\* prev.map(a => a.id === id ? { ...a, metadata: { ...a.metadata, [f]: v } } : a)
SetField(list, id, f, v) ==
    [k \in 1..Len(list) |->
        IF list[k].id = id
        THEN [list[k] EXCEPT !.metadata = [list[k].metadata EXCEPT ![f] = v]]
        ELSE list[k]]

\* What the user types into a field of an asset
EditedText == <<"e", "d">>

\* onUpdate of an AssetItem: the title or the description input changed (the
\* inputs are not rendered while the asset is 'pending').
UpdateMetadata ==
    /\ UNCHANGED <<svars, gen, edit, csv>>
    /\ \E k \in 1..Len(assets), f \in {"title", "description"} :
        /\ assets[k].status # "pending"
        /\ assets' = SetField(assets, assets[k].id, f, EditedText)
        /\ SaveEffect
        /\ UNCHANGED <<platform, activeEngine, groqKey, hasGeminiKey, isGenerating,
                       isOnline, run, calls, nextId, changes>>

\* wipePipeline, confirmed: the list is emptied and the stored item removed;
\* the effect on [assets] then saves the empty list.
WipePipeline ==
    /\ UNCHANGED <<svars, gen, edit, csv>>
    /\ Len(assets) > 0
    /\ assets' = <<>>
    /\ SaveEffect
    /\ UNCHANGED <<platform, activeEngine, groqKey, hasGeminiKey, isGenerating,
                   isOnline, run, calls, nextId, changes>>

\* prev.map(a => a.id === id ? { ...a, previewUrl: newUrl, status: 'success' } : a)
MarkModified(list, id, newUrl) ==
    [k \in 1..Len(list) |->
        IF list[k].id = id
        THEN [list[k] EXCEPT !.previewUrl = newUrl, !.status = "success"]
        ELSE list[k]]

\* handleAssetModified: editImageAsset of an AssetItem returned the data URI
\* of the edited image (the editor is offered for every asset but a video).
AssetModified ==
    /\ UNCHANGED <<svars, gen, edit, csv>>
    /\ \E k \in 1..Len(assets) :
        /\ assets[k].type # "Video"
        /\ assets' = MarkModified(assets, assets[k].id, "data:image/png;base64")
        /\ SaveEffect
        /\ UNCHANGED <<platform, activeEngine, groqKey, hasGeminiKey, isGenerating,
                       isOnline, run, calls, nextId, changes>>

\* parsed.map(a => ({ ...a, file: new File([], a.name) })): the File of a
\* restored asset is empty and has no type, and no preview URL was saved.
Restored(saved) ==
    [k \in 1..Len(saved) |->
        [id |-> saved[k].id, name |-> saved[k].name, type |-> saved[k].type,
         image |-> FALSE, previewUrl |-> PreviewOf(FALSE),
         status |-> saved[k].status, metadata |-> saved[k].metadata,
         error |-> saved[k].error]]

\* Variant: the effect that saves the list is declared before the effect that
\* reads the stored one, so the initial empty list is saved first.
MountEffects_saveFirst(item) ==
    LET saved == Stored(<<>>)
        read == saved
    IN  [queued |-> Restored(read), item |-> saved]

\* The effects of the first render, in the order of their declaration: the
\* stored list is read and setAssets queued with it, then the effect on
\* [assets] saves the initial empty list.
MountEffects(item) ==
    LET read == item
        saved == Stored(<<>>)
    IN  [queued |-> Restored(read), item |-> saved]

\* The page is loaded again: the component is constructed anew (the calls
\* of the page that was left are gone with it), the effects of the first
\* render run, and the render that follows shows the restored list and
\* saves it.
Reload ==
    /\ UNCHANGED <<svars, gen, edit, csv>>
    /\ LET mounted == MountEffects(store)
       IN  /\ assets' = mounted.queued
           /\ SaveEffect
    /\ platform' = "Shutterstock"
    /\ isGenerating' = FALSE
    /\ run' = NoRun
    /\ calls' = <<>>
    /\ \E selected \in BOOLEAN : hasGeminiKey' = selected
    /\ UNCHANGED <<activeEngine, groqKey, isOnline, nextId, changes>>

Next ==
    \/ AddAssets
    \/ SetPlatform
    \/ SetActiveEngine
    \/ SetGroqKey
    \/ ToggleOnline
    \/ GenerateAllRefused
    \/ HandleGenerateAll
    \/ ContinueRun
    \/ Regenerate
    \/ FileRead
    \/ Settle
    \/ RemoveAsset

NoResult == [Thrown EXCEPT !.threw = FALSE]

Init ==
    /\ AppInit
    /\ gen = Idle /\ edit = NoEdit /\ csv = NoCsv
    /\ data = EmptyObject
    /\ sPlatform = "Shutterstock"
    /\ result = NoResult
    /\ spc = "idle"

Spec == Init /\ [][Next]_vars

\* The App with PipelineAssets files already dropped in (a photo, a video,
\* a photo, ...; the newest first) and its settings left alone: the user
\* generates, regenerates and removes.
PipelineInit ==
    /\ assets = [k \in 1..PipelineAssets |->
                   LET id == PipelineAssets + 1 - k
                   IN  [id |-> id,
                        type |-> IF id % 2 = 1 THEN "Photo" ELSE "Video",
                        image |-> id % 2 = 1,
                        name |-> FileName(id), previewUrl |-> PreviewOf(TRUE),
                        status |-> "idle", metadata |-> EmptyMetadata, error |-> ""]]
    /\ store = Stored(assets)
    /\ platform = "Shutterstock"
    /\ activeEngine \in ENGINES
    /\ groqKey = KeyOfLen(MIN_KEY_LENGTH)
    /\ hasGeminiKey = TRUE
    /\ isGenerating = FALSE
    /\ isOnline = TRUE
    /\ run = NoRun
    /\ calls = <<>>
    /\ nextId = PipelineAssets
    /\ changes = MaxSettingChanges
    /\ gen = Idle /\ edit = NoEdit /\ csv = NoCsv
    /\ data = EmptyObject
    /\ sPlatform = "Shutterstock"
    /\ result = NoResult
    /\ spc = "idle"

PipelineNext ==
    \/ GenerateAllRefused
    \/ HandleGenerateAll
    \/ ContinueRun
    \/ Regenerate
    \/ FileRead
    \/ Settle
    \/ RemoveAsset

PipelineSpec == PipelineInit /\ [][PipelineNext]_vars

\* The calls of cs that a generate-all run started
OwnCalls(cs) == SelectSeq(cs, LAMBDA c : c.batch)

\* The provider answers a call of the run or fails it: the call leaves the
\* suspended calls (what runGeneration then does is the step Settle).
ProviderReturns ==
    \E j \in 1..Len(calls) :
        /\ calls[j].batch
        /\ calls[j].pc \in {"fetch", "generateContent"}
        /\ calls' = RemoveAt(calls, j)

\* The two-asset scenario when every provider call eventually returns or
\* fails: the file read of a call of the run settles, the provider answers
\* or fails its request, and the continuation of handleGenerateAll runs once
\* Promise.all of its batch has resolved.

FileReadOfRun ==
    /\ UNCHANGED <<svars, gen, edit, csv>>
    /\ \E j \in 1..Len(calls) : calls[j].batch /\ FileReadAt(j)

LiveSpec ==
    /\ PipelineInit /\ [][PipelineNext]_vars
    /\ WF_vars(FileReadOfRun)
    /\ WF_calls(ProviderReturns)
    /\ WF_vars(ContinueRun)

\* The App with one generated video and BatchAssets more videos (no file is
\* read for a video): the user runs generate-all.
BatchInit ==
    /\ assets = [k \in 1..(BatchAssets + 1) |->
                   LET id == BatchAssets + 2 - k
                   IN  [id |-> id, type |-> "Video", image |-> FALSE,
                        name |-> FileName(id), previewUrl |-> PreviewOf(TRUE),
                        status |-> IF k = 2 THEN "success" ELSE "idle",
                        metadata |-> EmptyMetadata, error |-> ""]]
    /\ store = Stored(assets)
    /\ platform = "Shutterstock"
    /\ activeEngine = "gemini"
    /\ groqKey = <<>>
    /\ hasGeminiKey = TRUE
    /\ isGenerating = FALSE
    /\ isOnline = TRUE
    /\ run = NoRun
    /\ calls = <<>>
    /\ nextId = BatchAssets + 1
    /\ changes = MaxSettingChanges
    /\ gen = Idle /\ edit = NoEdit /\ csv = NoCsv
    /\ data = EmptyObject
    /\ sPlatform = "Shutterstock"
    /\ result = NoResult
    /\ spc = "idle"

BatchNext ==
    \/ HandleGenerateAll
    \/ ContinueRun
    \/ Settle

BatchSpec == BatchInit /\ [][BatchNext]_vars

\* A session of the App over page loads: one asset is in the pipeline from
\* an earlier session, the user adds a file, edits, generates, removes,
\* clears and loads the page again; the settings are left alone.
SessionInit ==
    /\ assets = Restored(<<[id |-> MaxAssets + 1, name |-> FileName(MaxAssets + 1),
                            type |-> "Photo", status |-> "idle",
                            metadata |-> EmptyMetadata, error |-> ""]>>)
    /\ store = Stored(assets)
    /\ platform = "Shutterstock"
    /\ activeEngine = "gemini"
    /\ groqKey = <<>>
    /\ hasGeminiKey = TRUE
    /\ isGenerating = FALSE
    /\ isOnline = TRUE
    /\ run = NoRun
    /\ calls = <<>>
    /\ nextId = 0
    /\ changes = MaxSettingChanges
    /\ gen = Idle /\ edit = NoEdit /\ csv = NoCsv
    /\ data = EmptyObject
    /\ sPlatform = "Shutterstock"
    /\ result = NoResult
    /\ spc = "idle"

SessionNext ==
    \/ AddAssets
    \/ UpdateMetadata
    \/ GenerateAllRefused
    \/ HandleGenerateAll
    \/ ContinueRun
    \/ FileRead
    \/ Settle
    \/ RemoveAsset
    \/ WipePipeline
    \/ AssetModified
    \/ Reload

SessionSpec == SessionInit /\ [][SessionNext]_vars

-----------------------------------------------------------------------------
(* Two calls of generateAssetMetadata on two assets, running concurrently *)

\* Variant: the result of a call is kept in a variable of the module that
\* every call shares.
StepCall_sharedResult(cs, j, g) ==
    [k \in 1..Len(cs) |-> IF k = j THEN g ELSE [cs[k] EXCEPT !.metadata = g.metadata]]

\* A call runs up to its next suspension: everything it reads and writes is
\* its own parameters and locals.
StepCall(cs, j, g) == [cs EXCEPT ![j] = g]

ConcurrentPlatforms == {"Shutterstock", "Teepublic"}

ConcurrentInit ==
    /\ \E p1 \in ConcurrentPlatforms, p2 \in ConcurrentPlatforms,
          e1 \in ENGINES, e2 \in ENGINES, f \in AppFileKinds :
          calls = <<NewCall(1, "Photo", TRUE, p1, e1, Str(KeyOfLen(MIN_KEY_LENGTH)), FALSE),
                    NewCall(2, f.type, f.image, p2, e2, Str(KeyOfLen(MIN_KEY_LENGTH)), FALSE)>>
    /\ assets = <<>> /\ store = <<>> /\ platform = "Shutterstock" /\ activeEngine = "gemini"
    /\ groqKey = <<>> /\ hasGeminiKey = FALSE /\ isGenerating = FALSE
    /\ isOnline = TRUE /\ run = NoRun /\ nextId = 0 /\ changes = 0
    /\ gen = Idle /\ edit = NoEdit /\ csv = NoCsv
    /\ data = EmptyObject /\ sPlatform = "Shutterstock" /\ result = NoResult
    /\ spc = "idle"

CallEnter ==
    /\ \E j \in 1..Len(calls) :
        /\ calls[j].pc = "start"
        /\ calls' = StepCall(calls, j, GenEnter(calls[j]))
    /\ UNCHANGED <<svars, gen, edit, csv, assets, store, platform, activeEngine, groqKey, hasGeminiKey,
                   isGenerating, isOnline, run, nextId, changes>>

CallRead ==
    /\ \E j \in 1..Len(calls), readOk \in BOOLEAN :
        /\ calls[j].pc = "readFile"
        /\ calls' = StepCall(calls, j, GenFileRead(calls[j], readOk))
    /\ UNCHANGED <<svars, gen, edit, csv, assets, store, platform, activeEngine, groqKey, hasGeminiKey,
                   isGenerating, isOnline, run, nextId, changes>>

CallSettle ==
    /\ \E j \in 1..Len(calls) :
        \E out \in Outcomes(calls[j].engine) :
            /\ calls[j].pc \in {"fetch", "generateContent"}
            /\ calls' = StepCall(calls, j, GenResume(calls[j], out))
    /\ UNCHANGED <<svars, gen, edit, csv, assets, store, platform, activeEngine, groqKey, hasGeminiKey,
                   isGenerating, isOnline, run, nextId, changes>>

ConcurrentNext ==
    \/ CallEnter
    \/ CallRead
    \/ CallSettle

ConcurrentSpec == ConcurrentInit /\ [][ConcurrentNext]_vars

\* One export, outside the App.
ExportNext == Export

ExportSpecInit ==
    /\ ExportInit
    /\ store = Stored(assets)
    /\ activeEngine = "gemini"
    /\ groqKey = <<>> /\ hasGeminiKey = FALSE /\ isGenerating = FALSE
    /\ isOnline = TRUE /\ run = NoRun /\ calls = <<>> /\ nextId = 2 /\ changes = 0
    /\ gen = Idle /\ edit = NoEdit
    /\ data = EmptyObject /\ sPlatform = "Shutterstock" /\ result = NoResult
    /\ spc = "idle"

ExportSpec == ExportSpecInit /\ [][ExportNext]_vars

\* One call of editImageAsset, outside the App.
EditNext ==
    \/ EditRead
    \/ EditSettle

EditSpecInit ==
    /\ EditInit
    /\ csv = NoCsv
    /\ assets = <<>> /\ store = <<>> /\ platform = "Shutterstock" /\ activeEngine = "gemini"
    /\ groqKey = <<>> /\ hasGeminiKey = FALSE /\ isGenerating = FALSE
    /\ isOnline = TRUE /\ run = NoRun /\ calls = <<>> /\ nextId = 0 /\ changes = 0
    /\ gen = Idle
    /\ data = EmptyObject /\ sPlatform = "Shutterstock" /\ result = NoResult
    /\ spc = "idle"

EditSpec == EditSpecInit /\ [][EditNext]_vars

\* One call of generateAssetMetadata, outside the App.
GenNext ==
    \/ GenCall
    \/ GenRead
    \/ GenSettle

GenSpecInit ==
    /\ GenInit
    /\ edit = NoEdit /\ csv = NoCsv
    /\ assets = <<>> /\ store = <<>> /\ platform = "Shutterstock" /\ activeEngine = "gemini"
    /\ groqKey = <<>> /\ hasGeminiKey = FALSE /\ isGenerating = FALSE
    /\ isOnline = TRUE /\ run = NoRun /\ calls = <<>> /\ nextId = 0 /\ changes = 0
    /\ data = EmptyObject /\ sPlatform = "Shutterstock" /\ result = NoResult
    /\ spc = "idle"

GenSpec == GenSpecInit /\ [][GenNext]_vars

-----------------------------------------------------------------------------
(* The specification of sanitizeMetadata: one call on one provider object *)

SanitizeInit ==
    /\ assets = <<>> /\ store = <<>> /\ platform = "Shutterstock" /\ activeEngine = "gemini"
    /\ groqKey = <<>> /\ hasGeminiKey = FALSE /\ isGenerating = FALSE
    /\ isOnline = TRUE /\ run = NoRun /\ calls = <<>>
    /\ nextId = 0 /\ changes = 0 /\ gen = Idle /\ edit = NoEdit /\ csv = NoCsv
    /\ data \in ProviderObjects
    /\ sPlatform \in PLATFORMS
    /\ result = NoResult
    /\ spc = "input"

Sanitize ==
    /\ spc = "input"
    /\ result' = SanitizeMetadata(data, sPlatform)
    /\ spc' = "done"
    /\ UNCHANGED <<data, sPlatform>>
    /\ UNCHANGED <<avars, gen, edit, csv>>

SanitizeNext == Sanitize

SanitizeSpec == SanitizeInit /\ [][SanitizeNext]_vars

-----------------------------------------------------------------------------
(* Properties *)

\* The entries of a list joined with ", ": the pieces between the commas,
\* without the separator's blank.
Entries(s) ==
    LET p == Split(s)
    IN  [i \in 1..Len(p) |->
            IF i > 1 /\ Len(p[i]) > 0 /\ p[i][1] = " " THEN Tail(p[i]) ELSE p[i]]

Returned == spc = "done" /\ ~result.threw

\* The first n characters of s.
Prefix(s, n) == [i \in 1..(IF Len(s) < n THEN Len(s) ELSE n) |-> s[i]]

\* The provider's text, or the fallback when it is missing or empty.
ProvidedOr(v, fallback) == IF v.t = "string" /\ Len(v.s) > 0 THEN v.s ELSE fallback

CategoryNames == {SHUTTERSTOCK_CATEGORIES[i] : i \in 1..Len(SHUTTERSTOCK_CATEGORIES)}

\* The normalized tokens of the provider's keywords.
ProviderTokens == IF data.keywords.t = "string" THEN KeywordTokens(data.keywords) ELSE <<>>

\* The provider object with every wrong-typed field taken away.
WrongTypesAbsent(d) == [f \in DOMAIN d |-> IF d[f].t = "string" THEN d[f] ELSE Undef]

\* C1: the keywords string returned by sanitizeMetadata always splits on
\* commas into exactly 49 entries, each non-empty, lower-cased and trimmed.
C1_KeywordsAlways49 ==
    Returned =>
        LET e == Entries(result.keywords)
        IN  /\ Len(e) = 49
            /\ \A i \in 1..Len(e) :
                  Len(e[i]) > 0 /\ ToLowerCase(e[i]) = e[i] /\ Trim(e[i]) = e[i]

\* C2: sanitizeMetadata never throws on an object, and a wrong-typed field
\* is treated exactly as an absent one.
C2_SanitizeTotal ==
    spc = "done" =>
        /\ ~result.threw
        /\ result = SanitizeMetadata(WrongTypesAbsent(data), sPlatform)

\* C3: a generateAssetMetadata call with engine groq and an empty or absent
\* credential issues no provider request at any point and, once entered,
\* has thrown the missing-credential error.
C3_MissingCredentialNoRequest ==
    (gen.engine = "groq" /\ gen.key \in {Undef, Str(<<>>)}) =>
        /\ gen.requests = 0
        /\ gen.pc # "start" => (gen.pc = "thrown" /\ gen.message = "Groq API Key missing")

C3_Witness ==
    /\ gen.engine = "groq" /\ gen.key = Str(<<>>)
    /\ gen.pc = "thrown" /\ gen.message = "Groq API Key missing" /\ gen.requests = 0

\* C4: with engine groq, every call that has issued its provider request
\* carries a credential of at least 10 characters, whether it was started by
\* the generate-all action or by Regenerate.
C4_RequestOnlyWithPlausibleKey ==
    \A j \in 1..Len(calls) :
        (calls[j].engine = "groq" /\ calls[j].requests > 0) =>
            Len(calls[j].key.s) >= 10

\* C5: the normalized title is the first 120 characters of the provider's
\* title (of "Untitled Stock Asset" when it is missing or empty), the
\* normalized description the first 200 characters of the provider's
\* description (of the fixed fallback); so neither exceeds its cap.
C5_TitleDescriptionPrefix ==
    Returned =>
        /\ result.title = Prefix(ProvidedOr(data.title, Chars("Untitled Stock Asset")), 120)
        /\ result.description =
             Prefix(ProvidedOr(data.description,
                    Chars("High quality commercial stock asset for creative projects.")), 200)
        /\ Len(result.title) <= 120
        /\ Len(result.description) <= 200

C5_Witness ==
    /\ Returned
    /\ data.title.t = "string" /\ Len(data.title.s) = 130
    /\ Len(result.title) = 120
    /\ data.description.t = "undefined"

\* C6: on Shutterstock, category1 and category2 are members of the 27-entry
\* category set: the provider's value when it is literally an entry, else
\* "Abstract" for category1 and "Animals/Wildlife" for category2.
C6_ShutterstockCategories ==
    (Returned /\ sPlatform = "Shutterstock") =>
        /\ Cardinality(CategoryNames) = 27
        /\ result.category1.t = "string" /\ result.category1.s \in CategoryNames
        /\ result.category2.t = "string" /\ result.category2.s \in CategoryNames
        /\ result.category1 =
             IF data.category1.t = "string" /\ data.category1.s \in CategoryNames
             THEN data.category1 ELSE Str(<<"Abstract">>)
        /\ result.category2 =
             IF data.category2.t = "string" /\ data.category2.s \in CategoryNames
             THEN data.category2 ELSE Str(<<"Animals/Wildlife">>)

C6_Witness ==
    /\ Returned /\ sPlatform = "Shutterstock"
    /\ data.category1 = Str(<<"Bogus">>) /\ result.category1 = Str(<<"Abstract">>)
    /\ data.category2 = Str(<<"Vintage">>) /\ result.category2 = Str(<<"Vintage">>)

\* C7: on every platform other than Shutterstock, category1 and category2
\* are undefined, whatever the provider returned.
C7_NoCategoriesElsewhere ==
    (Returned /\ sPlatform # "Shutterstock") =>
        result.category1 = Undef /\ result.category2 = Undef

C7_Witness ==
    /\ Returned /\ sPlatform = "Adobe Stock"
    /\ data.category1 = Str(<<"Nature">>) /\ result.category1 = Undef
    /\ data.category2 = Str(<<"Abstract">>) /\ result.category2 = Undef

\* The first piece that is not empty once trimmed and lower-cased (<<>> if none).
RECURSIVE FirstFilled(_)
FirstFilled(pieces) ==
    IF Len(pieces) = 0 THEN <<>>
    ELSE IF Len(NormalizeToken(pieces[1])) > 0 THEN NormalizeToken(pieces[1])
    ELSE FirstFilled(Tail(pieces))

\* C8: mainTag is the provider's mainTag when it is present and non-empty
\* (truthy), else the first normalized keyword when there is one, else
\* "graphic" on Teepublic and "" on every other platform.
C8_MainTagFallbacks ==
    LET first == IF data.keywords.t = "string"
                 THEN FirstFilled(Split(data.keywords.s))
                 ELSE <<>>
    IN  Returned =>
            result.mainTag =
                IF Truthy(data.mainTag) THEN data.mainTag
                ELSE IF Len(first) > 0 THEN Str(first)
                ELSE IF sPlatform = "Teepublic" THEN Str(<<"g","r","a","p","h","i","c">>)
                ELSE Str(<<>>)

C8_Witness ==
    /\ Returned /\ sPlatform = "Dreamstime"
    /\ data.mainTag = Str(<<>>)
    /\ data.keywords = Str(MessyList(1, 2))
    /\ result.mainTag = Str(<<"k", "0", "1">>)

\* C9: n normalized tokens t, 0 < n < 49, are padded to exactly 49 entries:
\* entry i is t[i] for i < n and entry n+j is t[j mod n] followed by
\* "_concept" (the cycle runs over the original n tokens).
C9_KeywordPadding ==
    LET t == ProviderTokens
        n == Len(t)
        e == Entries(result.keywords)
    IN  (Returned /\ 0 < n /\ n < 49) =>
            /\ Len(e) = 49
            /\ \A i \in 1..49 :
                  e[i] = IF i <= n THEN t[i]
                         ELSE t[((i - n - 1) % n) + 1] \o <<"_","c","o","n","c","e","p","t">>

C9_Witness ==
    /\ Returned
    /\ data.keywords = Str(CatCatDog)
    /\ Len(Entries(result.keywords)) = 49
    /\ Entries(result.keywords)[3] = <<"d","o","g">>
    /\ Entries(result.keywords)[7] = <<"c","a","t","_","c","o","n","c","e","p","t">>

\* C10: more than 49 normalized tokens are cut to the first 49 in their
\* original order, joined with ", "; the tokens are the comma-separated
\* pieces, trimmed, lower-cased, the empty ones dropped.
C10_KeywordTruncation ==
    LET t == ProviderTokens
        e == Entries(result.keywords)
        p == Split(result.keywords)
    IN  (Returned /\ Len(t) > 49) =>
            /\ e = SubSeq(t, 1, 49)
            /\ \A i \in 2..Len(p) : p[i] = <<" ">> \o e[i]
            /\ p[1] = e[1]
            /\ \A n \in KeywordCounts :
                  data.keywords \in {Str(TidyList(1, n)), Str(MessyList(1, n))} =>
                      e = [i \in 1..49 |-> TidyToken(i)]

C10_Witness ==
    /\ Returned
    /\ data.keywords = Str(MessyList(1, 50))
    /\ Len(Entries(result.keywords)) = 49
    /\ Entries(result.keywords)[49] = <<"k", "4", "9">>

\* The provider's keywords hold no token: the field is missing or falsy, or
\* it is a string of commas and white space only.
NoKeywordGiven ==
    \/ ~Truthy(data.keywords)
    \/ /\ data.keywords.t = "string"
       /\ \A i \in 1..Len(data.keywords.s) :
             data.keywords.s[i] = "," \/ IsSpace(data.keywords.s[i])

C12_KeywordsDistinct ==
    Returned =>
        LET e == Entries(result.keywords)
        IN  \A i, j \in 1..Len(e) : i # j => e[i] # e[j]

Settled(g) == g.pc \in {"returned", "thrown"}

\* C14: with the gemini engine, a provider call that raises or answers
\* without text makes generateAssetMetadata throw; no Metadata is returned.
C14_GeminiNoTextFails ==
    (gen.engine = "gemini" /\ gen.out.kind \in {"reject", "notext"}) =>
        gen.pc = "thrown" /\ gen.metadata = EmptyMetadata

\* C16: with the groq engine, a non-success HTTP status makes the call throw
\* the upstream error message, or "Groq API Error" when the body carries no
\* message; the response is not parsed as metadata and nothing is returned.
C16_StatusErrorMessage ==
    (gen.engine = "groq" /\ gen.out.kind \in {"status", "statusraw"}) =>
        LET upstream == IF gen.out.kind = "status" THEN gen.out.message ELSE ""
        IN  /\ gen.pc = "thrown"
            /\ gen.message = IF upstream # "" THEN upstream ELSE "Groq API Error"
            /\ ~gen.sanitized
            /\ gen.metadata = EmptyMetadata

\* C17: the request carries image data only with the gemini engine and a
\* non-video image asset, and then as exactly one inline part after the
\* text prompt; every other request is the text alone.
C17_ImageOnlyForGeminiImages ==
    LET wanted == gen.engine = "gemini" /\ gen.type # "Video" /\ gen.image
    IN  /\ gen.attached => wanted
        /\ gen.requests > 0 =>
              /\ gen.attached = wanted
              /\ gen.parts = IF wanted THEN <<"text", "inlineData">> ELSE <<"text">>
        /\ gen.requests = 0 => gen.parts = <<>> /\ ~gen.attached

C17_Witness ==
    /\ gen.engine = "gemini" /\ gen.type = "Photo" /\ gen.image
    /\ gen.pc = "generateContent" /\ gen.requests = 1
    /\ gen.attached /\ gen.parts = <<"text", "inlineData">>

\* C19: a call issues at most one provider request whatever its outcome;
\* after a failure (status, exception, unparseable body) it has thrown, and a
\* settled call takes no further step.
C19_AtMostOneRequest ==
    /\ [](/\ gen.requests <= 1
          /\ gen.out.kind \in {"status", "statusraw", "reject", "badjson"} =>
                (gen.pc = "thrown" /\ gen.requests = 1 /\ gen.message # ""))
    /\ [][Settled(gen) => gen' = gen]_vars

C19_Witness ==
    /\ gen.engine = "groq" /\ gen.out.kind = "status"
    /\ gen.pc = "thrown" /\ gen.message = "Rate limit reached" /\ gen.requests = 1

\* The round-trip ends with text that is not JSON.
Unparseable == [kind |-> "badjson", data |-> EmptyObject, message |-> "Unexpected token"]

\* C15: for either engine, when the provider's text is not parseable JSON the
\* call throws, returns no Metadata and does not invoke sanitizeMetadata; the
\* caller then marks that asset, and only that asset, as 'error'.
C15_MalformedResponse ==
    /\ [](\A j \in 1..Len(calls) :
            calls[j].pc \in {"fetch", "generateContent"} =>
                LET g == GenResume(calls[j], Unparseable)
                IN  g.pc = "thrown" /\ ~g.sanitized /\ g.metadata = EmptyMetadata)
    /\ [][\A j \in 1..Len(calls) :
            (/\ calls' = RemoveAt(calls, j)
             /\ Len(assets') = Len(assets)
             /\ \E k \in 1..Len(assets) :
                   /\ assets[k].id = calls[j].asset
                   /\ assets[k].error # "Unexpected token"
                   /\ assets'[k].error = "Unexpected token")
            => \A k \in 1..Len(assets) :
                   assets'[k] = IF assets[k].id = calls[j].asset
                                THEN [assets[k] EXCEPT !.status = "error",
                                                       !.error = "Unexpected token"]
                                ELSE assets[k]]_vars

C15_Witness ==
    /\ Len(assets) = 2
    /\ assets[1].status = "error" /\ assets[1].error = "Unexpected token"
    /\ assets[1].metadata = EmptyMetadata
    /\ assets[2].status = "success"

\* The call c run on its own, from its arguments, with the file read and
\* the provider response that c was given.
Alone(c) ==
    LET c0 == NewCall(c.asset, c.type, c.image, c.platform, c.engine, c.key, c.batch)
        e  == GenEnter(c0)
    IN  IF e.pc = "thrown" THEN e
        ELSE IF e.pc = "readFile"
        THEN IF c.requests = 0 THEN GenFileRead(e, FALSE)
             ELSE GenResume(GenFileRead(e, TRUE), c.out)
        ELSE GenResume(e, c.out)

ImageParts(parts) == SelectSeq(parts, LAMBDA q : q.inlineData)

\* C20: editImageAsset returns the data URI of the first content part with
\* inline image data (text parts before it are skipped, image parts after it
\* ignored); for every response without such a part, a response with no
\* parts or no candidates included, it throws the no-image-returned error.
C20_FirstImageOrNoImageError ==
    edit.response.shape # "none" =>
        LET images == ImageParts(edit.response.parts)
        IN  IF Len(images) > 0
            THEN /\ edit.pc = "returned"
                 /\ edit.uri = <<"data:image/png;base64,", images[1].data>>
            ELSE /\ edit.pc = "thrown"
                 /\ edit.message = "No image data returned from AI editor"

\* The returned Metadata read as a provider object.
AsProviderObject(r) ==
    [title |-> Str(r.title), description |-> Str(r.description),
     keywords |-> Str(r.keywords), mainTag |-> r.mainTag,
     category1 |-> r.category1, category2 |-> r.category2]

\* C29: sanitizeMetadata is idempotent: the Metadata it returns, fed back in
\* with the same platform, is returned unchanged.
C29_SanitizeIdempotent ==
    Returned =>
        LET again == SanitizeMetadata(AsProviderObject(result), sPlatform)
        IN  ~again.threw /\ MetadataOf(again) = MetadataOf(result)

C29_Witness ==
    /\ Returned
    /\ data.keywords = Str(CatCatDog)
    /\ data.title.t = "string" /\ Len(data.title.s) > 120
    /\ Len(Entries(result.keywords)) = 49
    /\ SanitizeMetadata(AsProviderObject(result), sPlatform).keywords = result.keywords

\* C30: on Shutterstock the normalized category1 and category2 are always
\* two different members of the category set.
C30_CategoriesDiffer ==
    (Returned /\ sPlatform = "Shutterstock") =>
        /\ result.category1.s \in CategoryNames
        /\ result.category2.s \in CategoryNames
        /\ result.category1 # result.category2

\* The header the specification lists for a marketplace.
ListedHeader(plat) ==
    CASE plat = "Shutterstock" ->
           <<"Filename", "Description", "Keywords", "Categories", "Editorial",
             "Mature Content", "Illustration">>
      [] plat = "Teepublic" -> <<"Filename", "Title", "Description", "Keywords", "Main Tag">>
      [] plat = "Adobe Stock" -> <<"Filename", "Title", "Keywords", "Category">>
      [] OTHER -> <<"Filename", "Title", "Description", "Keywords">>

\* Every double quote of s is one of a pair: each run of double quotes has
\* an even length.
QuotesDoubled(s) ==
    \A i \in 1..Len(s) :
        (s[i] = "\"" /\ (i = 1 \/ s[i - 1] # "\"")) =>
            LET last == CHOOSE j \in i..Len(s) :
                            /\ \A k \in i..j : s[k] = "\""
                            /\ (j = Len(s) \/ s[j + 1] # "\"")
            IN  (last - i + 1) % 2 = 0

\* The cell is wrapped in double quotes, the quotes inside doubled.
QuotedCell(c) ==
    /\ Len(c) >= 2 /\ c[1] = "\"" /\ c[Len(c)] = "\""
    /\ QuotesDoubled(SubSeq(c, 2, Len(c) - 1))

\* C21: the exported CSV has the header listed for its marketplace, every
\* row has as many cells as the header, and every data cell is wrapped in
\* double quotes with the inner double quotes doubled.
C21_CsvHeaderAndCells ==
    csv.exported =>
        /\ csv.header = ListedHeader(platform)
        /\ \A k \in 1..Len(csv.rows) :
              /\ Len(csv.rows[k]) = Len(csv.header)
              /\ \A c \in 1..Len(csv.rows[k]) : QuotedCell(csv.rows[k][c])

\* sub occurs in s as a run of consecutive pieces.
Contains(s, sub) ==
    \E i \in 1..(Len(s) - Len(sub) + 1) : SubSeq(s, i, i + Len(sub) - 1) = sub

\* The 27 category names in their listed order, separated by ", ".
ListedNames ==
    [i \in 1..(2 * Len(SHUTTERSTOCK_CATEGORIES) - 1) |->
        IF i % 2 = 1 THEN SHUTTERSTOCK_CATEGORIES[(i + 1) \div 2][1] ELSE ", "]

\* C22: the prompt of a call depends on the asset's name, its type and the
\* marketplace only (the engine, the key and the kind of file do not change
\* it); it embeds those three values; the main-tag instruction is in it
\* exactly for Teepublic; the two-category instruction with the 27 names in
\* order and the category1/category2 fields of the schema are in it exactly
\* for Shutterstock.
C22_PromptOfNameTypePlatform ==
    gen.pc # "start" =>
        /\ \A e \in ENGINES, k \in {Undef} \cup {Str(x) : x \in Keys}, image \in BOOLEAN :
              GenEnter(NewCall(gen.asset, gen.type, image, gen.platform, e, k, FALSE)).prompt
                  = gen.prompt
        /\ Contains(gen.prompt, <<"- Filename: ">> \o FileName(gen.asset))
        /\ Contains(gen.prompt, <<"- Type: ", gen.type>>)
        /\ Contains(gen.prompt, <<"- Platform: ", gen.platform>>)
        /\ (gen.platform = "Teepublic") <=>
              Contains(gen.prompt, <<"5. TEEPUBLIC: Select a single, extremely relevant \"Main Tag\" that summarizes the core niche.">>)
        /\ (gen.platform = "Shutterstock") <=>
              Contains(gen.prompt,
                       <<"6. SHUTTERSTOCK: You MUST select the two most accurate categories from this list: ">>
                       \o ListedNames)
        /\ (gen.platform = "Shutterstock") <=>
              Contains(gen.prompt, <<", \"category1\": \"CategoryName\", \"category2\": \"CategoryName\"">>)
        /\ gen.platform # "Shutterstock" =>
              \A i \in 1..Len(SHUTTERSTOCK_CATEGORIES) :
                  ~Contains(gen.prompt, SHUTTERSTOCK_CATEGORIES[i])

\* A Shutterstock call for the file b"c.mp4 has sent its request.
C22_Witness ==
    /\ gen.pc \in {"fetch", "generateContent"}
    /\ gen.platform = "Shutterstock"
    /\ gen.asset = 2
    /\ Len(gen.prompt) > 2 * Len(SHUTTERSTOCK_CATEGORIES)

\* The two lists show the same assets in the same order: ids, names, types,
\* statuses and metadata.
SameListing(after, before) ==
    /\ Len(after) = Len(before)
    /\ \A k \in 1..Len(before) :
          /\ after[k].id = before[k].id
          /\ after[k].name = before[k].name
          /\ after[k].type = before[k].type
          /\ after[k].status = before[k].status
          /\ after[k].metadata = before[k].metadata

MarkedFailed(k) == assets'[k].status = "error" /\ assets'[k] # assets[k]

\* Every asset but the one at position k keeps its status and its metadata.
OthersUntouched(k) ==
    \A m \in 1..Len(assets) :
        m # k => /\ assets'[m].status = assets[m].status
                 /\ assets'[m].metadata = assets[m].metadata

\* C24: when the generation call of one asset fails, that asset gets the
\* status 'error' and an error text, every other asset keeps its status and
\* metadata, and nothing that generate-all checks before it starts is turned
\* off by the failure: a generation that could be started before the failure
\* can be started after it.
C24_FailureTouchesOneAsset ==
    [][((Settle \/ FileRead) /\ \E k \in 1..Len(assets) : MarkedFailed(k)) =>
          /\ Len(assets') = Len(assets)
          /\ \A k \in 1..Len(assets) :
                MarkedFailed(k) =>
                    /\ assets'[k].error # ""
                    /\ assets'[k].metadata = assets[k].metadata
                    /\ OthersUntouched(k)
          /\ isOnline' = isOnline
          /\ EngineReady(activeEngine, groqKey, hasGeminiKey)
                => EngineReady(activeEngine', groqKey', hasGeminiKey')]_vars

\* The ids of the assets of a list that are not 'success', in list order.
RECURSIVE Selected(_)
Selected(list) ==
    IF Len(list) = 0 THEN <<>>
    ELSE (IF list[1].status = "success" THEN <<>> ELSE <<list[1].id>>)
         \o Selected(Tail(list))

\* The assets of the calls of cs that a generate-all run started, in the
\* order the calls were started.
OwnAssets(cs) ==
    LET own == SelectSeq(cs, LAMBDA c : c.batch)
    IN  [k \in 1..Len(own) |-> own[k].asset]

\* The ids at the positions from + 1 .. from + BATCH_SIZE of the selection
\* (fewer at its end).
BatchIds(pending, from) ==
    LET size == IF Len(pending) - from < BATCH_SIZE THEN Len(pending) - from
                ELSE BATCH_SIZE
    IN  [k \in 1..size |-> pending[from + k].id]

SelectionSettled(pending, list) ==
    \A p \in 1..Len(pending), k \in 1..Len(list) :
        list[k].id = pending[p].id => list[k].status \in {"success", "error"}

\* C26: when every provider call eventually returns or fails, a generate-all
\* run that started eventually ends with isGenerating false; when it ends
\* every selected asset has been attempted and each one still in the list
\* is 'success' or 'error', none 'pending'.
C26_RunEnds ==
    /\ (run.active /\ isGenerating) ~> (~run.active /\ ~isGenerating)
    /\ [][(run.active /\ ~run'.active) =>
            /\ ~isGenerating'
            /\ run.i >= Len(run.pending)
            /\ OwnCalls(calls) = <<>>
            /\ SelectionSettled(run.pending, assets')]_vars

\* A run over both assets is about to end: its calls have settled, one with
\* a failure and one with a success.
C26_Witness ==
    /\ run.active /\ isGenerating
    /\ Len(run.pending) = PipelineAssets
    /\ OwnCalls(calls) = <<>>
    /\ \E k \in 1..Len(assets) : assets[k].status = "error"
    /\ \E k \in 1..Len(assets) : assets[k].status = "success"

\* The asset with this id is in the list with the status 'success'.
IsSuccess(list, id) ==
    \E k \in 1..Len(list) : list[k].id = id /\ list[k].status = "success"

\* C27: an asset gets the status 'success' only in the step in which a
\* generateAssetMetadata call for that asset returns; no other step (image
\* edit, manual edit, adding, removing) moves an asset to 'success', so an
\* asset in 'success' carries the metadata of a generation (its 49 keywords).
C27_SuccessOnlyFromGeneration ==
    /\ [][\A id \in 1..(MaxAssets + 1) :
            (IsSuccess(assets', id) /\ ~IsSuccess(assets, id)) =>
                \E j \in 1..Len(calls) :
                    /\ calls[j].asset = id
                    /\ calls[j].pc \in {"fetch", "generateContent"}
                    /\ calls' = RemoveAt(calls, j)]_vars
    /\ [](\A k \in 1..Len(assets) :
            assets[k].status = "success" => assets[k].metadata.keywords # <<>>)

\* The asset with this id is in the list.
Listed(list, id) == \E k \in 1..Len(list) : list[k].id = id

\* C28: when a call completes (with a result or a failure) for an asset
\* that was removed, or cleared with the pipeline, while the call was in
\* flight, the list after the completion is the list before it: the asset
\* is not put back and no remaining asset changes.
C28_CompletionForRemovedAsset ==
    [][\A j \in 1..Len(calls) :
          ((Settle \/ FileRead) /\ calls' = RemoveAt(calls, j)
                                /\ ~Listed(assets, calls[j].asset))
              => assets' = assets]_vars

\* A run selected two assets, one of them was removed while its call was in
\* flight, and every call of the run has since completed; the other asset
\* is in the list.
C28_Witness ==
    /\ run.active /\ Len(run.pending) = 2
    /\ calls = <<>>
    /\ Len(assets) = 1
    /\ \E p \in 1..Len(run.pending) : ~Listed(assets, run.pending[p].id)
    /\ assets[1].status \in {"success", "error"}

=============================================================================
